---------------------------- MODULE Spec2Model ----------------------------
(***************************************************************************)
(* MAIK, the German freelance contract generator: the command-line entry   *)
(* points (generate, interactive), the ContractProcessor step sequencer    *)
(* and the OpenAIClient chat wrapper, as one state machine.                *)
(*                                                                         *)
(* Text is a finite sequence of tokens.  A token is one character (" ",    *)
(* "a") or one literal chunk of a template string; concatenation is \o.    *)
(* An optional value (a TypeScript `T | undefined`) is <<>> when undefined *)
(* and <<v>> when it holds v.                                              *)
(***************************************************************************)
EXTENDS Integers, Sequences, FiniteSets, TLC

VARIABLES
    options,      \* the parsed command line: subcommand, apiKey, prompt, output
    env,          \* process.env.OPENROUTER_API_KEY (optional text)
    asked,        \* the inquirer prompts shown while configuring
    config,       \* optional ProcessConfig
    session,      \* optional ContractSession of the ContractProcessor
    pc,           \* position of the single control path
    stage,        \* 0 before the run, 1..5 the stages, 6 Synthesize, 7 Done
    systemPrompt, \* optional text: the template loaded for the current stage
    responses,    \* the locals intakeResponse .. explainResponse (optional text each)
    userInputs,   \* the locals userInput1 .. userInput5 (optional text each)
    pending,      \* optional request (message list) awaiting the provider
    lastRequest,  \* optional request: the one most recently sent
    calls,        \* the stages whose provider call was issued, in order
    reprompts,    \* rejected submissions at the current terminal prompt
    written,      \* the writeFileSync calls made: sequence of [path, content]
    error,        \* optional error that ended the run
    exitStatus,   \* optional process exit status
    apiError,     \* optional error thrown to a direct caller of saveContract
    submittedLine, \* optional text: the line last submitted at a feedback pause
    chatCall,     \* optional chatCompletion call made on its own: config and provider outcome
    chatResult,   \* optional result of that call
    lastOp        \* name of the operation that took the last step

vars == <<options, env, asked, config, session, pc, stage, systemPrompt,
          responses, userInputs, pending, lastRequest, calls, reprompts,
          written, error, exitStatus, apiError, submittedLine, chatCall,
          chatResult, lastOp>>

-----------------------------------------------------------------------------
(* Bounds of the model *)

MaxReprompts == 1   \* rejected submissions counted per terminal prompt
MaxChoices == 2     \* choices in one provider response

(* Program constants *)

MinPromptLen == 10
NumStages == 5

-----------------------------------------------------------------------------
(* Optional values and text *)

Nothing == <<>>
Some(v) == <<v>>

Truthy(opt) == opt # Nothing /\ opt[1] # <<>>

IsSpace(tok) == tok = " "

RECURSIVE TrimStart(_)
TrimStart(s) ==
    IF s # <<>> /\ IsSpace(Head(s)) THEN TrimStart(Tail(s)) ELSE s

RECURSIVE TrimEnd(_)
TrimEnd(s) ==
    IF s # <<>> /\ IsSpace(s[Len(s)]) THEN TrimEnd(SubSeq(s, 1, Len(s) - 1)) ELSE s

Trim(s) == TrimEnd(TrimStart(s))


-----------------------------------------------------------------------------
(* The inputs drawn by the model *)

Subcommands == {"generate", "interactive"}

ApiKeyFlags == {Nothing, Some(<<>>), Some(<<"key-flag">>)}
EnvKeys == {Nothing, Some(<<" ">>), Some(<<"key-env">>)}
PasswordAnswers == {<<"key-typed">>}

OutputFlags == {Nothing, Some(<<"out.txt">>)}
OutputAnswers == {<<>>, <<"answer.txt">>}

ShortPrompt == <<"w", "e", "b">>
LongPrompt == <<"w", "e", "b", " ", "p", "r", "o", "j", "e", "c", "t">>
\* A project description that is, word for word, the user message of the
\* synthesis call.
SynthesisLikePrompt == <<"Generate the final German freelance contract">>
PromptFlags == {Nothing, Some(ShortPrompt), Some(SynthesisLikePrompt)}
PromptAnswers == {ShortPrompt, LongPrompt}

Directory == <<"./prompts">>

\* What the user types at a feedback pause.
Submissions == {<<>>, <<" ">>, <<" ", "a">>}

\* The content field of one completion choice: null, '' or a text.
ChoiceContents == {Nothing, Some(<<>>), Some(<<"r">>)}

RECURSIVE SeqsUpTo(_, _)
SeqsUpTo(S, n) ==
    IF n = 0 THEN {<<>>}
    ELSE LET shorter == SeqsUpTo(S, n - 1)
         IN  shorter \cup {Append(q, x) : q \in shorter, x \in S}

Causes == {"rate limit exceeded"}

\* What the provider does with one request: it answers with a list of
\* choices or the call throws.
ProviderOutcomes ==
    {[ok |-> TRUE, choices |-> c, cause |-> ""] : c \in SeqsUpTo(ChoiceContents, MaxChoices)}
    \cup {[ok |-> FALSE, choices |-> <<>>, cause |-> c] : c \in Causes}

Timestamps == {"1730000000000"}

-----------------------------------------------------------------------------
(* OpenAIClient *)

\* The text of the last choice instead of the first.
ChatCompletionTextLastChoice(raw) ==
    IF Len(raw.choices) = 0 THEN <<>>
    ELSE IF Truthy(raw.choices[Len(raw.choices)]) THEN raw.choices[Len(raw.choices)][1]
    ELSE <<>>

\* chatCompletion, when the provider call returns: the text it returns.
ChatCompletionText(raw) ==
    IF Len(raw.choices) = 0 THEN <<>>
    ELSE IF Truthy(raw.choices[1]) THEN raw.choices[1][1]
    ELSE <<>>

\* chatCompletion, when the provider call throws: the error it throws.
ChatCompletionError(raw) ==
    [kind |-> "OpenAIApiError", message |-> <<"OpenAI API error: ", raw.cause>>]

\* The request's message list with the user message pushed before the call.
GenerateContractStepTwice(sysPrompt, userMessage, conversationHistory) ==
    <<[role |-> "system", content |-> sysPrompt]>>
    \o conversationHistory
    \o <<[role |-> "user", content |-> userMessage],
         [role |-> "user", content |-> userMessage]>>

\* generateContractStep: the message list it passes to chatCompletion.
GenerateContractStep(sysPrompt, userMessage, conversationHistory) ==
    <<[role |-> "system", content |-> sysPrompt]>>
    \o conversationHistory
    \o <<[role |-> "user", content |-> userMessage]>>

-----------------------------------------------------------------------------
(* Command line: getConfiguration and getInteractiveConfiguration *)

EnvKeyUsable(envKey) == Truthy(envKey) /\ Trim(envKey[1]) # <<>>

\* getConfiguration: whether the password prompt is shown, and the key.
KeyPromptShown(optKey, envKey) == ~Truthy(optKey) /\ ~EnvKeyUsable(envKey)

\* The environment consulted before the flag.
ResolveApiKeyEnvFirst(optKey, envKey, answer) ==
    IF EnvKeyUsable(envKey) THEN envKey[1]
    ELSE IF Truthy(optKey) THEN optKey[1]
    ELSE answer

ResolveApiKey(optKey, envKey, answer) ==
    IF Truthy(optKey) THEN optKey[1]
    ELSE IF EnvKeyUsable(envKey) THEN envKey[1]
    ELSE answer

\* getInteractiveConfiguration: the same two decisions.
InteractiveKeyPromptShown(optKey, envKey) == ~Truthy(optKey) /\ ~EnvKeyUsable(envKey)

InteractiveResolveApiKey(optKey, envKey, answer) ==
    IF Truthy(optKey) THEN optKey[1]
    ELSE IF EnvKeyUsable(envKey) THEN envKey[1]
    ELSE answer

\* The validate callback of the project-description prompt.
ValidPrompt(input) == Len(Trim(input)) >= MinPromptLen

\* outputFile of the ProcessConfig each subcommand builds.
GenerateOutputFile(optOutput) == optOutput

InteractiveOutputFile(optOutput, answer) ==
    IF answer # <<>> THEN Some(answer) ELSE Nothing

GetConfiguration ==
    /\ pc = "cli"
    /\ options.subcommand = "generate"
    /\ \E keyAnswer \in PasswordAnswers, promptAnswer \in PromptAnswers :
          /\ ValidPrompt(promptAnswer)
          /\ config' = Some([
                apiKey |-> ResolveApiKey(options.apiKey, env, keyAnswer),
                directory |-> Directory,
                userPrompt |-> IF Truthy(options.prompt) THEN options.prompt[1]
                               ELSE promptAnswer,
                outputFile |-> GenerateOutputFile(options.output)])
    /\ asked' = (IF KeyPromptShown(options.apiKey, env) THEN {"apiKey"} ELSE {})
                \cup (IF Truthy(options.prompt) THEN {} ELSE {"prompt"})
    /\ pc' = "configured"
    /\ lastOp' = "getConfiguration"
    /\ UNCHANGED <<options, env, apiError, chatCall, chatResult,
                   submittedLine, session, stage, systemPrompt, responses,
                   userInputs, pending, lastRequest, calls, reprompts,
                   written, error, exitStatus>>

GetInteractiveConfiguration ==
    /\ pc = "cli"
    /\ options.subcommand = "interactive"
    /\ \E keyAnswer \in PasswordAnswers, promptAnswer \in PromptAnswers,
          outputAnswer \in OutputAnswers :
          /\ ValidPrompt(promptAnswer)
          /\ config' = Some([
                apiKey |-> InteractiveResolveApiKey(options.apiKey, env, keyAnswer),
                directory |-> Directory,
                userPrompt |-> promptAnswer,
                outputFile |-> InteractiveOutputFile(options.output, outputAnswer)])
    /\ asked' = (IF InteractiveKeyPromptShown(options.apiKey, env)
                 THEN {"apiKey"} ELSE {})
                \cup {"prompt", "output"}
    /\ pc' = "configured"
    /\ lastOp' = "getInteractiveConfiguration"
    /\ UNCHANGED <<options, env, apiError, chatCall, chatResult,
                   submittedLine, session, stage, systemPrompt, responses,
                   userInputs, pending, lastRequest, calls, reprompts,
                   written, error, exitStatus>>

-----------------------------------------------------------------------------
(* ContractProcessor: pure parts *)

\* constructor: the session it starts with.
NewSession(cfg) ==
    [userPrompt |-> cfg.userPrompt,
     conversationHistory |-> <<>>,
     contractDraft |-> Nothing,
     finalContract |-> Nothing]

\* The Verify stage loading the Draft stage's template.
TemplateFileCopied(k) ==
    CASE k = 1 -> "intake.txt"
      [] k = 2 -> "confirm_specs.txt"
      [] k = 3 -> "draft.txt"
      [] k = 4 -> "draft.txt"
      [] k = 5 -> "explain.txt"

TemplateFile(k) ==
    CASE k = 1 -> "intake.txt"
      [] k = 2 -> "confirm_specs.txt"
      [] k = 3 -> "draft.txt"
      [] k = 4 -> "verify.txt"
      [] k = 5 -> "explain.txt"

\* The template files as they lie on disk, with surrounding white space.
FileContent(filename) == <<" ", "template of ", filename, " ">>

FilePath(directory, filename) == directory \o <<"/", filename>>

\* loadPromptFile, when the file exists.
LoadPromptFile(filename) == Trim(FileContent(filename))

PromptFileError(directory, filename) ==
    [kind |-> "PromptFileNotFound",
     message |-> <<"Prompt file not found: ">> \o FilePath(directory, filename)]

\* The user message of each stage, as processContract builds it.
IntakeMessage(userPrompt) == userPrompt

ConfirmMessage(userPrompt, intakeResponse, userInput1) ==
    <<"User Request: ">> \o userPrompt
    \o <<"\n\nIntake Information: ">> \o intakeResponse
    \o <<"\n\nAdditional Details: ">> \o userInput1

DraftMessage(userPrompt, confirmResponse, userInput2) ==
    <<"User Request: ">> \o userPrompt
    \o <<"\n\nConfirmed Specifications: ">> \o confirmResponse
    \o <<"\n\nUser Confirmation: ">> \o userInput2

VerifyMessage(userPrompt, draftResponse, userInput3) ==
    <<"User Request: ">> \o userPrompt
    \o <<"\n\nContract Draft: ">> \o draftResponse
    \o <<"\n\nUser Feedback: ">> \o userInput3

ExplainMessage(userPrompt, draftResponse, verifyResponse, userInput4) ==
    <<"User Request: ">> \o userPrompt
    \o <<"\n\nFinal Contract: ">> \o draftResponse
    \o <<"\n\nVerification Notes: ">> \o verifyResponse
    \o <<"\n\nFinal Adjustments: ">> \o userInput4

\* generateFinalContract: the system prompt and the user message it sends.
FinalPrompt(draft, verification, userAdjustments, userExplanation) ==
    <<"You are a legal expert ... \n\nContract Draft:\n">> \o draft
    \o <<"\n\nVerification Feedback:\n">> \o verification
    \o <<"\n\nUser Adjustments:\n">> \o userAdjustments
    \o <<"\n\nUser Explanation Notes:\n">> \o userExplanation
    \o <<"\n\nPlease generate the final German freelance contract ...">>

FinalUserMessage == <<"Generate the final German freelance contract">>

\* The default each feedback pause offers.
DefaultFeedback(k) ==
    CASE k = 1 -> <<"No additional details needed">>
      [] k = 2 -> <<"Specifications look good">>
      [] k = 3 -> <<"Draft looks good, proceed with verification">>
      [] k = 4 -> <<"Verification feedback looks good">>
      [] k = 5 -> <<"Explanation looks good">>

\* getUserInput: the value the prompt validates and returns.  The input
\* prompt answers with its default when the line submitted is empty.
PromptValue(submitted, defaultValue) ==
    IF submitted = <<>> THEN defaultValue ELSE submitted

\* A validate callback that accepts everything.
ValidInputAlways(input) == TRUE

\* A validate callback that accepts nothing.
ValidInputNever(input) == FALSE

\* getUserInput: the validate callback.
ValidInput(input) == Len(Trim(input)) # 0

\* A push that is skipped when the completion is empty.
AppendTurnSkipEmpty(conversationHistory, userMessage, response) ==
    IF response = <<>> THEN conversationHistory
    ELSE conversationHistory
         \o <<[role |-> "user", content |-> userMessage],
              [role |-> "assistant", content |-> response]>>

\* An assignment in place of the push: the history keeps the last turn only.
AppendTurnReplace(conversationHistory, userMessage, response) ==
    <<[role |-> "user", content |-> userMessage],
      [role |-> "assistant", content |-> response]>>

\* A push of the user message alone when the completion is empty.
AppendTurnUserOnly(conversationHistory, userMessage, response) ==
    IF response = <<>>
    THEN Append(conversationHistory, [role |-> "user", content |-> userMessage])
    ELSE conversationHistory
         \o <<[role |-> "user", content |-> userMessage],
              [role |-> "assistant", content |-> response]>>

\* executeStep: the history after a completed call.
AppendTurn(conversationHistory, userMessage, response) ==
    conversationHistory
    \o <<[role |-> "user", content |-> userMessage],
         [role |-> "assistant", content |-> response]>>

\* The synthesis turn pushed like a stage's turn.
HistoryAfterFinalAppend(conversationHistory, userMessage, response) ==
    conversationHistory
    \o <<[role |-> "user", content |-> userMessage],
         [role |-> "assistant", content |-> response]>>

\* generateFinalContract: the history after the synthesis call.
HistoryAfterFinal(conversationHistory, userMessage, response) ==
    conversationHistory

\* A stage skipped.
NextStageSkip(k) == k + 2

\* processContract: where the control path waits once a request is out (it
\* awaits executeStep, which awaits the provider).
AfterSendNoAwait(k) == "prompt"

AfterSend(k) == "await"

\* The draft stored after every stage from the third on.
DraftAfterStepFromThird(k, draft, response) ==
    IF k >= 3 THEN Some(response) ELSE draft

\* processContract: session.contractDraft after the call of stage k returned.
DraftAfterStep(k, draft, response) ==
    IF k = 3 THEN Some(response) ELSE draft

\* processContract: the stage that follows stage k.
NextStage(k) == k + 1

\* The next template is not loaded: the next call is built at once.
AfterFeedbackNoLoad(k) == "build"

\* processContract after the feedback of stage k: the template of the next
\* stage is loaded, or after the last stage the synthesis call is built.
AfterFeedback(k) == IF NextStage(k) <= NumStages THEN "load" ELSE "build"

\* saveContract: the name of the file it writes.
GeneratedName(now) == <<"german_freelance_contract_", now, ".txt">>

SaveFilename(outputPath, now) ==
    IF Truthy(outputPath) THEN outputPath[1] ELSE GeneratedName(now)

\* The precondition check left out.
NoContractToSaveNever(sess) == FALSE

\* saveContract: whether it throws 'No contract to save'.
NoContractToSave(sess) == ~Truthy(sess.finalContract)

SaveError == [kind |-> "NoContractToSave",
              message |-> <<"No contract to save. Run processContract() first.">>]

-----------------------------------------------------------------------------
(* The run *)

Init ==
    /\ options \in {o \in [subcommand : Subcommands, apiKey : ApiKeyFlags,
                           prompt : PromptFlags, output : OutputFlags] :
                      o.subcommand = "interactive" => o.prompt = Nothing}
    /\ env \in EnvKeys
    \* the key inputs and the prompt and output inputs vary one group at a time
    /\ \/ options.apiKey = Some(<<"key-flag">>) /\ env = Nothing
       \/ options.prompt = Nothing /\ options.output = Nothing
    /\ asked = {}
    /\ config = Nothing
    /\ session = Nothing
    /\ pc = "cli"
    /\ stage = 0
    /\ systemPrompt = Nothing
    /\ responses = [k \in 1..NumStages |-> Nothing]
    /\ userInputs = [k \in 1..NumStages |-> Nothing]
    /\ pending = Nothing
    /\ lastRequest = Nothing
    /\ calls = <<>>
    /\ reprompts = 0
    /\ written = <<>>
    /\ error = Nothing
    /\ exitStatus = Nothing
    /\ apiError = Nothing
    /\ submittedLine = Nothing
    /\ chatCall = Nothing
    /\ chatResult = Nothing
    /\ lastOp = "none"

\* The error logged and swallowed by generateContract, which goes on to save.
AbortSwallowed(err) ==
    /\ error' = Some(err)
    /\ exitStatus' = exitStatus
    /\ pc' = "save"

\* The error printed and the process ended with status 0.
AbortExitZero(err) ==
    /\ error' = Some(err)
    /\ exitStatus' = Some(0)
    /\ pc' = "exited"

\* A fatal error: it propagates through processContract and generateContract
\* to the subcommand's action, which prints it and calls process.exit(1).
Abort(err) ==
    /\ error' = Some(err)
    /\ exitStatus' = Some(1)
    /\ pc' = "exited"

\* The Explain stage handed the verification response as the contract.
StageUserMessageVerifyAsContract(k) ==
    CASE k = 1 -> IntakeMessage(session[1].userPrompt)
      [] k = 2 -> ConfirmMessage(session[1].userPrompt, responses[1][1], userInputs[1][1])
      [] k = 3 -> DraftMessage(session[1].userPrompt, responses[2][1], userInputs[2][1])
      [] k = 4 -> VerifyMessage(session[1].userPrompt, responses[3][1], userInputs[3][1])
      [] k = 5 -> ExplainMessage(session[1].userPrompt, responses[4][1],
                                 responses[4][1], userInputs[4][1])

\* processContract: the user message of stage k, from the session and the locals.
StageUserMessage(k) ==
    CASE k = 1 -> IntakeMessage(session[1].userPrompt)
      [] k = 2 -> ConfirmMessage(session[1].userPrompt, responses[1][1], userInputs[1][1])
      [] k = 3 -> DraftMessage(session[1].userPrompt, responses[2][1], userInputs[2][1])
      [] k = 4 -> VerifyMessage(session[1].userPrompt, responses[3][1], userInputs[3][1])
      [] k = 5 -> ExplainMessage(session[1].userPrompt, responses[3][1],
                                 responses[4][1], userInputs[4][1])

\* generateContract: builds the ContractProcessor.
GenerateContract ==
    /\ pc = "configured"
    /\ session' = Some(NewSession(config[1]))
    /\ pc' = "constructed"
    /\ lastOp' = "generateContract"
    /\ UNCHANGED <<options, env, apiError, chatCall, chatResult,
                   submittedLine, asked, config, stage, systemPrompt,
                   responses, userInputs, pending, lastRequest, calls,
                   reprompts, written, error, exitStatus>>

\* processContract is entered: the sequencer is in its first state.
ProcessContract ==
    /\ pc = "constructed"
    /\ stage' = 1
    /\ pc' = "load"
    /\ lastOp' = "processContract"
    /\ UNCHANGED <<options, env, apiError, chatCall, chatResult,
                   submittedLine, asked, config, session, systemPrompt,
                   responses, userInputs, pending, lastRequest, calls,
                   reprompts, written, error, exitStatus>>

\* processContract: loadPromptFile for the current stage.
LoadPrompt ==
    /\ pc = "load"
    /\ stage \in 1..NumStages
    /\ lastOp' = "loadPromptFile"
    /\ \E exists \in BOOLEAN :
          IF exists
          THEN /\ systemPrompt' = Some(LoadPromptFile(TemplateFile(stage)))
               /\ pc' = "build"
               /\ UNCHANGED <<error, exitStatus>>
          ELSE /\ Abort(PromptFileError(config[1].directory, TemplateFile(stage)))
               /\ UNCHANGED systemPrompt
    /\ UNCHANGED <<options, env, apiError, chatCall, chatResult,
                   submittedLine, asked, config, session, stage, responses,
                   userInputs, pending, lastRequest, calls, reprompts,
                   written>>

\* executeStep up to its await: the request goes out.
ExecuteStepSend ==
    /\ pc = "build"
    /\ stage \in 1..NumStages
    /\ pending' = Some(GenerateContractStep(systemPrompt[1], StageUserMessage(stage),
                                            session[1].conversationHistory))
    /\ lastRequest' = pending'
    /\ calls' = Append(calls, stage)
    /\ pc' = AfterSend(stage)
    /\ lastOp' = "executeStep"
    /\ UNCHANGED <<options, env, apiError, chatCall, chatResult,
                   submittedLine, asked, config, session, stage,
                   systemPrompt, responses, userInputs, reprompts, written,
                   error, exitStatus>>

\* executeStep after its await, and the statements of processContract up to
\* the next await: the turn is pushed, the response kept, the draft stored.
ExecuteStepReturn ==
    /\ pc = "await"
    /\ stage \in 1..NumStages
    /\ \E raw \in ProviderOutcomes :
          /\ raw.ok
          /\ LET response == ChatCompletionText(raw)
                 history == AppendTurn(session[1].conversationHistory,
                                       StageUserMessage(stage), response)
             IN  /\ session' = Some([session[1] EXCEPT
                        !.conversationHistory = history,
                        !.contractDraft = DraftAfterStep(stage, @, response)])
                 /\ responses' = [responses EXCEPT ![stage] = Some(response)]
    /\ pending' = Nothing
    /\ reprompts' = 0
    /\ pc' = "prompt"
    /\ lastOp' = "executeStepReturn"
    /\ UNCHANGED <<options, env, apiError, chatCall, chatResult,
                   submittedLine, asked, config, stage, systemPrompt,
                   userInputs, lastRequest, calls, written, error,
                   exitStatus>>

\* chatCompletion throws: the wrapped error ends the run.
ChatCompletionThrows ==
    /\ pc = "await"
    /\ \E raw \in ProviderOutcomes :
          /\ ~raw.ok
          /\ Abort(ChatCompletionError(raw))
    /\ pending' = Nothing
    /\ lastOp' = "chatCompletionThrows"
    /\ UNCHANGED <<options, env, apiError, chatCall, chatResult,
                   submittedLine, asked, config, session, stage,
                   systemPrompt, responses, userInputs, lastRequest, calls,
                   reprompts, written>>

\* getUserInput: one submission at the feedback pause of the current stage.
GetUserInput ==
    /\ pc = "prompt"
    /\ stage \in 1..NumStages
    /\ \E line \in Submissions :
          LET input == PromptValue(line, DefaultFeedback(stage))
          IN  /\ submittedLine' = Some(line)
              /\ IF ValidInput(input)
                 THEN /\ userInputs' = [userInputs EXCEPT ![stage] = Some(input)]
                      /\ stage' = NextStage(stage)
                      /\ pc' = AfterFeedback(stage)
                      /\ reprompts' = 0
                      /\ lastOp' = "getUserInput"
                 ELSE /\ reprompts < MaxReprompts
                      /\ reprompts' = reprompts + 1
                      /\ lastOp' = "reprompt"
                      /\ UNCHANGED <<userInputs, stage, pc>>
    /\ UNCHANGED <<options, env, apiError, chatCall, chatResult, asked,
                   config, session, systemPrompt, responses, pending,
                   lastRequest, calls, written, error, exitStatus>>

\* generateFinalContract up to its await: the synthesis request goes out.
GenerateFinalContractSend ==
    /\ pc = "build"
    /\ stage = NumStages + 1
    /\ pending' = Some(GenerateContractStep(
                        FinalPrompt(responses[3][1], responses[4][1],
                                    userInputs[4][1], userInputs[5][1]),
                        FinalUserMessage,
                        session[1].conversationHistory))
    /\ lastRequest' = pending'
    /\ calls' = Append(calls, stage)
    /\ pc' = AfterSend(stage)
    /\ lastOp' = "generateFinalContract"
    /\ UNCHANGED <<options, env, apiError, chatCall, chatResult,
                   submittedLine, asked, config, session, stage,
                   systemPrompt, responses, userInputs, reprompts, written,
                   error, exitStatus>>

\* generateFinalContract after its await; processContract stores the final
\* contract and returns it.
GenerateFinalContractReturn ==
    /\ pc = "await"
    /\ stage = NumStages + 1
    /\ \E raw \in ProviderOutcomes :
          /\ raw.ok
          /\ LET response == ChatCompletionText(raw)
                 history == HistoryAfterFinal(session[1].conversationHistory,
                                              FinalUserMessage, response)
             IN  session' = Some([session[1] EXCEPT
                      !.conversationHistory = history,
                      !.finalContract = Some(response)])
    /\ pending' = Nothing
    /\ stage' = NextStage(stage)
    /\ pc' = "save"
    /\ lastOp' = "generateFinalContractReturn"
    /\ UNCHANGED <<options, env, apiError, chatCall, chatResult,
                   submittedLine, asked, config, systemPrompt, responses,
                   userInputs, lastRequest, calls, reprompts, written, error,
                   exitStatus>>

\* generateContract: saveContract(config.outputFile) after the preview.
SaveContract ==
    /\ pc = "save"
    /\ lastOp' = "saveContract"
    /\ IF NoContractToSave(session[1])
       THEN /\ Abort(SaveError)
            /\ UNCHANGED written
       ELSE /\ \E now \in Timestamps :
                  written' = Append(written,
                      [path |-> SaveFilename(config[1].outputFile, now),
                       content |-> session[1].finalContract])
            /\ pc' = "saved"
            /\ UNCHANGED <<error, exitStatus>>
    /\ UNCHANGED <<options, env, apiError, chatCall, chatResult,
                   submittedLine, asked, config, session, stage,
                   systemPrompt, responses, userInputs, pending, lastRequest,
                   calls, reprompts>>

\* The subcommand's action returns without an error: the process ends with status 0.
ActionReturns ==
    /\ pc = "saved"
    /\ exitStatus' = Some(0)
    /\ pc' = "exited"
    /\ lastOp' = "exit"
    /\ UNCHANGED <<options, env, apiError, chatCall, chatResult,
                   submittedLine, asked, config, session, stage,
                   systemPrompt, responses, userInputs, pending, lastRequest,
                   calls, reprompts, written, error>>

Next ==
    \/ GetConfiguration
    \/ GetInteractiveConfiguration
    \/ GenerateContract
    \/ ProcessContract
    \/ LoadPrompt
    \/ ExecuteStepSend
    \/ ExecuteStepReturn
    \/ ChatCompletionThrows
    \/ GetUserInput
    \/ GenerateFinalContractSend
    \/ GenerateFinalContractReturn
    \/ SaveContract
    \/ ActionReturns

Spec == Init /\ [][Next]_vars

-----------------------------------------------------------------------------
(* The processor used directly: saveContract called by a caller of the     *)
(* class at any moment after construction.                                 *)

MaxWrites == 2   \* writeFileSync calls recorded

SaveContractCall ==
    /\ session # Nothing
    /\ lastOp' = "saveContractCall"
    /\ \E outputPath \in OutputFlags :
          IF NoContractToSave(session[1])
          THEN /\ apiError' = Some(SaveError)
               /\ UNCHANGED written
          ELSE /\ Len(written) < MaxWrites
               /\ \E now \in Timestamps :
                     written' = Append(written,
                         [path |-> SaveFilename(outputPath, now),
                          content |-> session[1].finalContract])
               /\ apiError' = Nothing
    /\ UNCHANGED <<options, env, asked, config, session, pc, stage,
                   systemPrompt, responses, userInputs, pending, lastRequest,
                   calls, reprompts, error, exitStatus, submittedLine,
                   chatCall, chatResult>>

InitApi ==
    /\ Init
    /\ options.apiKey = Some(<<"key-flag">>)
    /\ options.output = Nothing
    /\ options.prompt = Nothing
    /\ env = Nothing

NextApi == Next \/ SaveContractCall

SpecApi == InitApi /\ [][NextApi]_vars

-----------------------------------------------------------------------------
(* Properties *)

\* The conversation history of the session; empty before the processor exists.
History == IF session = Nothing THEN <<>> ELSE session[1].conversationHistory

IsPrefix(a, b) == Len(a) <= Len(b) /\ SubSeq(b, 1, Len(a)) = a

\* The stage calls that completed: their response local is set.
CompletedStages == {k \in 1..NumStages : responses[k] # Nothing}

Completed == Cardinality(CompletedStages)

\* The run was ended by a template load or a provider call that failed.
Failed ==
    /\ error # Nothing
    /\ error[1].kind \in {"PromptFileNotFound", "OpenAIApiError"}

FinalContract == IF session = Nothing THEN Nothing ELSE session[1].finalContract

\* C1: in every reachable state the history holds exactly 2N entries, N the
\* number of stage calls completed so far (0..5); the entries of completed
\* stage k are its user message followed by the assistant response, which
\* may be the empty text.
C1_HistoryLength ==
    /\ CompletedStages = 1..Completed
    /\ Completed <= 5
    /\ Len(History) = 2 * Completed
    /\ \A k \in 1..Completed :
          /\ History[2 * k - 1] = [role |-> "user", content |-> StageUserMessage(k)]
          /\ History[2 * k] = [role |-> "assistant", content |-> responses[k][1]]

\* C1 witness: five stages completed, one of them with an empty completion.
C1_Witness ==
    /\ Completed = 5
    /\ responses[2] = Some(<<>>)
    /\ Len(History) = 10

\* C2: the history is append-only: in every step of a run the history before
\* the step is a prefix of the history after it.
C2_AppendOnly == [][IsPrefix(History, History')]_vars

\* C2 witness: a run that went through the five stages, the synthesis call
\* and saveContract with its ten entries in place.
C2_Witness ==
    /\ lastOp = "saveContract"
    /\ written # <<>>
    /\ Len(History) = 10
    /\ reprompts = 0

\* The sequencer's state, by name.
SequencerState ==
    CASE stage = 0 -> "NotStarted"
      [] stage = 1 -> "Intake"
      [] stage = 2 -> "Confirm"
      [] stage = 3 -> "Draft"
      [] stage = 4 -> "Verify"
      [] stage = 5 -> "Explain"
      [] stage = 6 -> "Synthesize"
      [] stage = 7 -> "Done"

\* C3: the sequencer moves only from a state to the one that follows it in
\* Intake, Confirm, Draft, Verify, Explain, Synthesize, Done; the provider
\* calls issued are those of stages 1, 2, .. in that order, one per stage, six
\* in a full run.
C3_LinearOrder ==
    /\ [][stage' = stage \/ stage' = stage + 1]_vars
    /\ [](/\ stage \in 0..7
          /\ calls = [i \in 1..Len(calls) |-> i]
          /\ Len(calls) <= 6
          /\ stage \in 1..6 => Len(calls) \in {stage - 1, stage}
          /\ stage = 0 => calls = <<>>
          /\ stage = 7 => calls = <<1, 2, 3, 4, 5, 6>>)

\* C3 witness: Done reached after the six calls.
C3_Witness ==
    /\ SequencerState = "Done"
    /\ calls = <<1, 2, 3, 4, 5, 6>>

\* The path loadPromptFile reports for each of the five template files.
MissingFileMessage(k) ==
    CASE k = 1 -> <<"Prompt file not found: ", "./prompts", "/", "intake.txt">>
      [] k = 2 -> <<"Prompt file not found: ", "./prompts", "/", "confirm_specs.txt">>
      [] k = 3 -> <<"Prompt file not found: ", "./prompts", "/", "draft.txt">>
      [] k = 4 -> <<"Prompt file not found: ", "./prompts", "/", "verify.txt">>
      [] k = 5 -> <<"Prompt file not found: ", "./prompts", "/", "explain.txt">>

FileNotFound == error # Nothing /\ error[1].kind = "PromptFileNotFound"

\* C4 as stated: whichever template file is missing, when the run is aborted
\* by the file-not-found error no provider call has been issued and the
\* history is empty.
C4_NoCallBeforeAnyMissingFile ==
    FileNotFound => calls = <<>> /\ History = <<>>

\* C4 amended: a template is loaded when its stage begins, so a missing
\* template of stage k aborts the run before the call of stage k: the error
\* names that stage's file, the calls issued are those of stages 1..k-1 and
\* the history holds their 2(k-1) entries; for intake.txt no call was issued
\* and the history is empty.
C4_NoCallOfStageWithMissingFile ==
    FileNotFound =>
        /\ stage \in 1..5
        /\ error[1].message = MissingFileMessage(stage)
        /\ calls = [i \in 1..(stage - 1) |-> i]
        /\ Len(History) = 2 * (stage - 1)
        /\ pending = Nothing
        /\ responses[stage] = Nothing

\* C4 witness: verify.txt found missing after three stages completed.
C4_Witness ==
    /\ FileNotFound
    /\ stage = 4
    /\ Len(History) = 6

\* C5: once a template load or a provider call has failed the run is over:
\* the process has exited with status 1, no call is pending, the final text
\* is unset, no file is written, and nothing changes afterwards (no further
\* call, prompt or retry).
C5_AllOrNothing ==
    /\ [](Failed =>
            /\ pc = "exited"
            /\ exitStatus = Some(1)
            /\ pending = Nothing
            /\ FinalContract = Nothing
            /\ written = <<>>)
    /\ [][Failed =>
            /\ calls' = calls
            /\ written' = written
            /\ session' = session
            /\ userInputs' = userInputs
            /\ reprompts' = reprompts
            /\ stage' = stage
            /\ pc' = pc]_vars

\* C5 witness: the provider call of the Verify stage failed after three
\* completed stages.
C5_Witness ==
    /\ Failed
    /\ error[1].kind = "OpenAIApiError"
    /\ stage = 4
    /\ Len(History) = 6
    /\ written = <<>>

\* The run went through the whole pipeline: the sixth call returned and the
\* process has ended.
PipelineCompleted == stage = 7 /\ pc = "exited"

\* C6: whenever a run completes the full pipeline, whatever the texts
\* returned (a response without content included), the process ends in
\* success and one file was written whose content is the text of the
\* synthesis call.
C6_CompleteRunIsSaved ==
    PipelineCompleted =>
        /\ exitStatus = Some(0)
        /\ error = Nothing
        /\ Len(written) = 1
        /\ written[1].content = session[1].finalContract

\* C7: saveContract called while the synthesis call has not completed (the
\* processor just built, processContract in progress or aborted) throws
\* 'No contract to save', writes no file and leaves the session as it was.
C7_SaveBeforeSynthesis ==
    [][(lastOp' = "saveContractCall" /\ stage # 7) =>
            /\ apiError' = Some(SaveError)
            /\ written' = written
            /\ session' = session]_vars

\* C7 witness: saveContract was called while the Draft stage's provider call
\* was pending, and threw.
C7_Witness ==
    /\ lastOp = "saveContractCall"
    /\ pc = "await"
    /\ stage = 3
    /\ apiError = Some(SaveError)
    /\ written = <<>>

GeneratedNames == {GeneratedName(now) : now \in Timestamps}

\* C8: for both subcommands the file is written to the --output path when
\* one was given on the command line, and to a generated name only when
\* none was given.
C8_OutputFlagIsThePath ==
    written # <<>> =>
        /\ Truthy(options.output) => written[1].path = options.output[1]
        /\ written[1].path \in GeneratedNames => ~Truthy(options.output)

\* The API key the run's ProcessConfig carries, handed to the OpenAIClient.
UsedApiKey == config[1].apiKey

EnvKeyNonBlank == env # Nothing /\ Trim(env[1]) # <<>>

\* C9 as stated: the flag, when given, is the key used; the environment key
\* is used only when no flag is given and the environment value is
\* non-blank; the password prompt is shown only when neither supplies a key;
\* for both subcommands.
C9_FlagGivenIsUsed ==
    config # Nothing =>
        /\ (options.apiKey # Nothing /\ EnvKeyNonBlank) =>
              UsedApiKey = options.apiKey[1]
        /\ (env # Nothing /\ UsedApiKey = env[1]) =>
              (options.apiKey = Nothing /\ EnvKeyNonBlank)
        /\ "apiKey" \in asked => (~Truthy(options.apiKey) /\ ~EnvKeyNonBlank)

FlagKeyGiven == options.apiKey # Nothing /\ options.apiKey[1] # <<>>

\* C9 amended: a flag whose value is the empty string counts as not given.
\* A non-empty flag is the key used, whatever the environment holds; the
\* environment key is used exactly when the flag is absent or empty and the
\* environment value is non-blank; the password prompt is shown, and its
\* answer used, exactly when neither supplies a key; for both subcommands.
C9_ApiKeyResolution ==
    config # Nothing =>
        /\ FlagKeyGiven => (UsedApiKey = options.apiKey[1] /\ "apiKey" \notin asked)
        /\ (~FlagKeyGiven /\ EnvKeyNonBlank) =>
              (UsedApiKey = env[1] /\ "apiKey" \notin asked)
        /\ (~FlagKeyGiven /\ ~EnvKeyNonBlank) =>
              (UsedApiKey \in PasswordAnswers /\ "apiKey" \in asked)

\* C9 witness: generate run with an empty flag and a key in the environment;
\* the environment key is the one used.
C9_Witness ==
    /\ config # Nothing
    /\ options.subcommand = "generate"
    /\ options.apiKey = Some(<<>>)
    /\ env = Some(<<"key-env">>)
    /\ UsedApiKey = <<"key-env">>
    /\ asked = {"prompt"}

\* C10: the synthesis request carries the ten history entries of the five
\* stages in order between its system message and its user message; the
\* step that completes it changes no session field but the final text, so
\* the history holds exactly ten entries in Done.
C10_SynthesisLeavesHistory ==
    /\ []((stage = 6 /\ pc = "await") =>
            /\ Len(History) = 10
            /\ Len(pending[1]) = 12
            /\ SubSeq(pending[1], 2, 11) = History)
    /\ [](stage = 7 => Len(History) = 10)
    /\ [][lastOp' = "generateFinalContractReturn" =>
            /\ session'[1].finalContract # Nothing
            /\ session'[1] = [session[1] EXCEPT
                                !.finalContract = session'[1].finalContract]]_vars
    /\ [][lastOp' = "generateFinalContract" => session' = session]_vars

\* C10 witness: Done, with a final text and the ten entries.
C10_Witness ==
    /\ stage = 7
    /\ lastOp = "generateFinalContractReturn"
    /\ FinalContract = Some(<<"r">>)
    /\ Len(History) = 10

\* The request awaiting the provider, and the entry its user message makes.
Request == pending[1]

NewUserEntry == Request[Len(Request)]

Occurrences(entry, messages) ==
    Cardinality({i \in 1..Len(messages) : messages[i] = entry})

\* The shape every request has: one system message, the history as it stands
\* while the call is pending (nothing is pushed before the call returns), one
\* user message; 2k messages for stage k, 12 for the synthesis.
RequestShape ==
    pending # Nothing =>
        /\ stage \in 1..6
        /\ Len(Request) = 2 * stage
        /\ Request[1].role = "system"
        /\ Request[1].content = IF stage <= 5 THEN systemPrompt[1]
                                ELSE FinalPrompt(responses[3][1], responses[4][1],
                                                 userInputs[4][1], userInputs[5][1])
        /\ SubSeq(Request, 2, Len(Request) - 1) = History
        /\ Len(History) = 2 * (stage - 1)
        /\ NewUserEntry.role = "user"
        /\ NewUserEntry.content = IF stage <= 5 THEN StageUserMessage(stage)
                                  ELSE <<"Generate the final German freelance contract">>
        /\ \A i \in 2..Len(Request) : Request[i].role # "system"

\* C11 as stated: every request is system message, history, new user
\* message, of 2k messages for stage k and 12 for the synthesis, and the new
\* user message appears exactly once in it.
C11_UserMessageOnce ==
    /\ RequestShape
    /\ pending # Nothing => Occurrences(NewUserEntry, Request) = 1

\* C11 amended: every request is system message, history as it stood before
\* the call, new user message, of 2k messages for stage k and 12 for the
\* synthesis; the new user message is the last message and is no entry of
\* the history part, except in the synthesis request of a run whose project
\* description is word for word 'Generate the final German freelance
\* contract': there the same user entry is also the first entry of the
\* history, the Intake stage's user message.
C11_RequestShape ==
    /\ []RequestShape
    /\ [](pending # Nothing =>
            IF stage = 6
               /\ config[1].userPrompt = <<"Generate the final German freelance contract">>
            THEN /\ Occurrences(NewUserEntry, Request) = 2
                 /\ Request[2] = NewUserEntry
            ELSE Occurrences(NewUserEntry, Request) = 1)
    /\ [][(pending = Nothing /\ pending' # Nothing) =>
            /\ SubSeq(pending'[1], 2, Len(pending'[1]) - 1) = History
            /\ History' = History]_vars

\* C11 witness: the synthesis request of such a run is pending.
C11_Witness ==
    /\ pending # Nothing
    /\ stage = 6
    /\ Len(Request) = 12
    /\ Request[2] = Request[12]

\* The inputs the claim lists for each call's text.
OriginalPrompt == config[1].userPrompt
IntakeResponse == responses[1][1]
ConfirmResponse == responses[2][1]
DraftResponse == responses[3][1]
VerifyResponse == responses[4][1]
IntakeFeedback == userInputs[1][1]
ConfirmFeedback == userInputs[2][1]
DraftFeedback == userInputs[3][1]
VerifyFeedback == userInputs[4][1]
ExplainFeedback == userInputs[5][1]

\* The text of call k as a function of the listed inputs and of nothing else.
TextFromListedInputs(k) ==
    CASE k = 1 -> IntakeMessage(OriginalPrompt)
      [] k = 2 -> ConfirmMessage(OriginalPrompt, IntakeResponse, IntakeFeedback)
      [] k = 3 -> DraftMessage(OriginalPrompt, ConfirmResponse, ConfirmFeedback)
      [] k = 4 -> VerifyMessage(OriginalPrompt, DraftResponse, DraftFeedback)
      [] k = 5 -> ExplainMessage(OriginalPrompt, DraftResponse, VerifyResponse,
                                 VerifyFeedback)
      [] k = 6 -> FinalPrompt(DraftResponse, VerifyResponse, VerifyFeedback,
                              ExplainFeedback)

\* The text built for the call that is pending: the user message of a stage,
\* the synthesis prompt of the synthesis call.
BuiltText ==
    IF stage <= 5 THEN Request[Len(Request)].content ELSE Request[1].content

\* C12: the text built for each call is the value of one fixed function at
\* the inputs listed for it (Intake: the original prompt; Confirm: prompt,
\* intake response, intake feedback; Draft: prompt, confirm response, confirm
\* feedback; Verify: prompt, draft response, draft feedback; Explain: prompt,
\* draft response, verify response, verify feedback; synthesis: draft, verify
\* response, post-verify and post-explain feedback).  Two runs that agree on
\* those inputs therefore build the same text, whatever else differs.  The
\* texts of the completed stages stay in the history as built.
C12_TextFromListedInputs ==
    /\ pending # Nothing => BuiltText = TextFromListedInputs(stage)
    /\ \A k \in 1..Completed : History[2 * k - 1].content = TextFromListedInputs(k)

\* C12 witness: the Explain request is pending in a run whose draft and
\* verification responses differ and whose confirm response is not the draft.
C12_Witness ==
    /\ pending # Nothing
    /\ stage = 5
    /\ DraftResponse # VerifyResponse
    /\ ConfirmResponse # DraftResponse
    /\ VerifyFeedback # DraftFeedback

\* A step of getUserInput: a line was submitted at the feedback pause.
FeedbackStep == lastOp' \in {"getUserInput", "reprompt"}

Reprompted ==
    /\ lastOp' = "reprompt"
    /\ stage' = stage
    /\ pc' = "prompt"
    /\ userInputs' = userInputs
    /\ error' = Nothing
    /\ exitStatus' = Nothing

AcceptedAs(text) ==
    /\ lastOp' = "getUserInput"
    /\ userInputs' = [userInputs EXCEPT ![stage] = Some(text)]
    /\ stage' = stage + 1
    /\ error' = Nothing

\* C13 as stated: at each feedback pause a submission that is empty after
\* trimming makes the step re-prompt in the same stage without aborting, and
\* one that is non-empty after trimming is accepted unmodified.
C13_EmptyAlwaysReprompts ==
    [][FeedbackStep =>
        IF Trim(submittedLine'[1]) = <<>>
        THEN Reprompted
        ELSE AcceptedAs(submittedLine'[1])]_vars

\* The default string of each feedback pause.
StageDefault(k) ==
    CASE k = 1 -> <<"No additional details needed">>
      [] k = 2 -> <<"Specifications look good">>
      [] k = 3 -> <<"Draft looks good, proceed with verification">>
      [] k = 4 -> <<"Verification feedback looks good">>
      [] k = 5 -> <<"Explanation looks good">>

\* C13 amended: a submission of white space only (non-empty, empty after
\* trimming) is never accepted: the step re-prompts, stays in the same stage
\* and does not abort; the empty line does not re-prompt: the prompt answers
\* with the stage's default string, which is accepted; a submission that is
\* non-empty after trimming is accepted unmodified (untrimmed).  Hence every
\* feedback string embedded in a later call's text is non-empty after
\* trimming.
C13_FeedbackValidation ==
    /\ [][FeedbackStep =>
            CASE submittedLine'[1] = <<>> -> AcceptedAs(StageDefault(stage))
              [] submittedLine'[1] # <<>> /\ Trim(submittedLine'[1]) = <<>> -> Reprompted
              [] OTHER -> AcceptedAs(submittedLine'[1])]_vars
    /\ [](\A k \in 1..5 :
            userInputs[k] # Nothing => Trim(userInputs[k][1]) # <<>>)

\* C13 witness: a line of white space was rejected at the Draft stage's pause
\* and an untrimmed line was accepted at an earlier one.
C13_Witness ==
    /\ lastOp = "reprompt"
    /\ submittedLine = Some(<<" ">>)
    /\ stage = 3
    /\ pc = "prompt"
    /\ userInputs[2] = Some(<<" ", "a">>)
    /\ userInputs[1] = Some(<<"No additional details needed">>)

\* Provider calls settled: returned (a stage's response or the final text is
\* set) or failed (the wrapped error ended the run).
SettledCalls ==
    Completed
    + (IF FinalContract # Nothing THEN 1 ELSE 0)
    + (IF error # Nothing /\ error[1].kind = "OpenAIApiError" THEN 1 ELSE 0)

\* Provider calls issued and not yet settled.
InFlight == Len(calls) - SettledCalls

PromptOpen == pc = "prompt"

\* C14: at most one operation is pending: never two provider calls in
\* flight, the call in flight is the current stage's, no call is in flight
\* while a feedback prompt awaits input, and the session changes only in the
\* steps that resume the single control path (construction, a call's return).
C14_OneOperationPending ==
    /\ [](/\ InFlight \in {0, 1}
          /\ InFlight = 1 <=> pending # Nothing
          /\ pending # Nothing <=> pc = "await"
          /\ pending # Nothing => calls[Len(calls)] = stage
          /\ PromptOpen => (InFlight = 0 /\ pending = Nothing)
          /\ PromptOpen => Len(calls) = stage)
    /\ [][session' # session =>
            /\ lastOp' \in {"generateContract", "executeStepReturn",
                            "generateFinalContractReturn"}
            /\ pending' = Nothing
            /\ (pending # Nothing \/ lastOp' = "generateContract")]_vars

\* C14 witness: a feedback prompt is open after a re-prompt, three calls
\* issued and settled, none in flight.
C14_Witness ==
    /\ PromptOpen
    /\ reprompts = 1
    /\ stage = 3
    /\ Len(calls) = 3
    /\ InFlight = 0

FatalKinds == {"PromptFileNotFound", "OpenAIApiError", "NoContractToSave"}

\* C15: the exit status tells the outcome: a fatal error (template not
\* found, provider error, save precondition error) ends the process with
\* status 1 in the step that raises it, and status 0 is reached only with no
\* error, after the six calls returned and the file was written.
C15_ExitStatusMatchesOutcome ==
    /\ [](error # Nothing =>
            /\ error[1].kind \in FatalKinds
            /\ exitStatus = Some(1)
            /\ pc = "exited")
    /\ [](exitStatus = Some(0) =>
            /\ error = Nothing
            /\ stage = 7
            /\ calls = <<1, 2, 3, 4, 5, 6>>
            /\ Len(written) = 1
            /\ written[1].content = FinalContract)
    /\ [](pc = "exited" => exitStatus \in {Some(0), Some(1)})
    /\ [][exitStatus # Nothing => exitStatus' = exitStatus]_vars

\* C15 witness: the save precondition error ended the process with status 1
\* after the six calls.
C15_Witness ==
    /\ error # Nothing
    /\ error[1].kind = "NoContractToSave"
    /\ exitStatus = Some(1)
    /\ Len(calls) = 6
    /\ written = <<>>

-----------------------------------------------------------------------------
(* chatCompletion on its own: one call with drawn arguments and a drawn    *)
(* provider outcome.                                                       *)

DefaultModel == "gpt-4"
DefaultTemperatureTenths == 7   \* 0.7
DefaultMaxTokens == 4000

\* The config overrides a caller may pass (Partial<ModelConfig>).
ChatConfigs ==
    [model : {Nothing, Some("other-model")},
     temperature : {Nothing, Some(0)},
     maxTokens : {Nothing, Some(100)}]

ChatMessageLists ==
    {<<>>, <<[role |-> "user", content |-> <<"hello">>]>>}

\* The provider outcomes of the run, and a second cause of failure.
ChatOutcomes ==
    ProviderOutcomes
    \cup {[ok |-> FALSE, choices |-> <<>>, cause |-> "invalid api key"]}

\* chatCompletion: the request it makes, defaults overridden by the config.
ChatRequest(messages, cfg) ==
    [model |-> IF cfg.model # Nothing THEN cfg.model[1] ELSE DefaultModel,
     messages |-> messages,
     temperature |-> IF cfg.temperature # Nothing THEN cfg.temperature[1]
                     ELSE DefaultTemperatureTenths,
     max_tokens |-> IF cfg.maxTokens # Nothing THEN cfg.maxTokens[1]
                    ELSE DefaultMaxTokens]

\* chatCompletion: how the call ends for a provider outcome.
ChatCompletionResult(raw) ==
    IF raw.ok
    THEN [threw |-> FALSE, value |-> Some(ChatCompletionText(raw)), error |-> Nothing]
    ELSE [threw |-> TRUE, value |-> Nothing, error |-> Some(ChatCompletionError(raw))]

InitChat ==
    /\ chatCall \in {Some(c) : c \in [messages : ChatMessageLists,
                                      config : ChatConfigs,
                                      raw : ChatOutcomes]}
    /\ chatResult = Nothing
    /\ options = [subcommand |-> "generate", apiKey |-> Some(<<"key-flag">>),
                  prompt |-> Nothing, output |-> Nothing]
    /\ env = Nothing
    /\ asked = {}
    /\ config = Nothing
    /\ session = Nothing
    /\ pc = "chat"
    /\ stage = 0
    /\ systemPrompt = Nothing
    /\ responses = [k \in 1..NumStages |-> Nothing]
    /\ userInputs = [k \in 1..NumStages |-> Nothing]
    /\ pending = Nothing
    /\ lastRequest = Nothing
    /\ calls = <<>>
    /\ reprompts = 0
    /\ written = <<>>
    /\ error = Nothing
    /\ exitStatus = Nothing
    /\ apiError = Nothing
    /\ submittedLine = Nothing
    /\ lastOp = "none"

ChatCompletion ==
    /\ pc = "chat"
    /\ chatCall # Nothing
    /\ chatResult = Nothing
    /\ chatResult' = Some([request |-> ChatRequest(chatCall[1].messages,
                                                   chatCall[1].config),
                           outcome |-> ChatCompletionResult(chatCall[1].raw)])
    /\ lastOp' = "chatCompletion"
    /\ UNCHANGED <<options, env, asked, config, session, pc, stage, systemPrompt,
                   responses, userInputs, pending, lastRequest, calls, reprompts,
                   written, error, exitStatus, apiError, submittedLine, chatCall>>

NextChat == ChatCompletion

SpecChat == InitChat /\ [][NextChat]_vars

ChatRaw == chatCall[1].raw

ChatOutcome == chatResult[1].outcome

NoContent(raw) ==
    \/ Len(raw.choices) = 0
    \/ raw.choices[1] = Nothing
    \/ raw.choices[1] = Some(<<>>)

\* C16: chatCompletion ends in one of three ways: the provider call failed
\* and it throws the one wrapped error, 'OpenAI API error: ' plus the cause,
\* returning nothing; the provider returned no choice or a first choice
\* without content and it returns ''; otherwise it returns the content of
\* the first choice, whatever the further choices hold.
C16_ThreeOutcomes ==
    chatResult # Nothing =>
        CASE ~ChatRaw.ok ->
               /\ ChatOutcome.threw
               /\ ChatOutcome.value = Nothing
               /\ ChatOutcome.error =
                    Some([kind |-> "OpenAIApiError",
                          message |-> <<"OpenAI API error: ", ChatRaw.cause>>])
          [] ChatRaw.ok /\ NoContent(ChatRaw) ->
               /\ ~ChatOutcome.threw
               /\ ChatOutcome.error = Nothing
               /\ ChatOutcome.value = Some(<<>>)
          [] OTHER ->
               /\ ~ChatOutcome.threw
               /\ ChatOutcome.error = Nothing
               /\ ChatOutcome.value = Some(ChatRaw.choices[1][1])

\* C16 witness: two choices came back, the first with a text and the second
\* without content, and the first one's text was returned.
C16_Witness ==
    /\ chatResult # Nothing
    /\ ChatRaw.ok
    /\ Len(ChatRaw.choices) = 2
    /\ ChatRaw.choices[1] = Some(<<"r">>)
    /\ ChatRaw.choices[2] = Nothing
    /\ ChatOutcome.value = Some(<<"r">>)

-----------------------------------------------------------------------------
\* The draft text of the session; unset before the processor exists.
ContractDraft == IF session = Nothing THEN Nothing ELSE session[1].contractDraft

\* C17: the draft text is unset exactly until the call of the Draft stage
\* has completed, is then the response of that call (the sixth entry of the
\* history) and never changes; the final text is unset exactly until the
\* synthesis call has completed, and is set once, in the step that completes
\* that call, never to change. Final text set implies draft text set and a
\* history of ten entries; draft text set implies a history of at least six.
C17_DraftAndFinalSetOnce ==
    /\ [](ContractDraft = Nothing <=> Len(History) < 6)
    /\ [](ContractDraft # Nothing =>
            /\ ContractDraft = responses[3]
            /\ ContractDraft = Some(History[6].content))
    /\ [](FinalContract = Nothing <=> stage < 7)
    /\ [](FinalContract # Nothing =>
            /\ ContractDraft # Nothing
            /\ Len(History) = 10)
    /\ [][ContractDraft # Nothing => ContractDraft' = ContractDraft]_vars
    /\ [][FinalContract # Nothing => FinalContract' = FinalContract]_vars
    /\ [][ContractDraft = Nothing /\ ContractDraft' # Nothing =>
            /\ lastOp' = "executeStepReturn"
            /\ stage = 3
            /\ calls = <<1, 2, 3>>]_vars
    /\ [][FinalContract = Nothing /\ FinalContract' # Nothing =>
            /\ lastOp' = "generateFinalContractReturn"
            /\ calls = <<1, 2, 3, 4, 5, 6>>]_vars

\* C17 witness: a run whose synthesis call has completed, with a draft that
\* differs from the responses of the stages after it and from the final text.
C17_Witness ==
    /\ FinalContract = Some(<<>>)
    /\ ContractDraft = Some(<<"r">>)
    /\ responses[4] = Some(<<>>)
    /\ responses[5] = Some(<<>>)
    /\ Len(History) = 10

-----------------------------------------------------------------------------
\* The feedback of every stage before stage k has been collected.
FeedbackCollectedBefore(k) == \A j \in 1..(k - 1) : userInputs[j] # Nothing

\* The turn of stage k is in the history: its user message and the response.
TurnInHistory(k) ==
    /\ Len(History) >= 2 * k
    /\ History[2 * k - 1] = [role |-> "user", content |-> StageUserMessage(k)]
    /\ History[2 * k] = [role |-> "assistant", content |-> responses[k][1]]

\* C18: within each of the five stages the steps follow one another in the
\* order load the template, build the user message and issue the call,
\* append the turn, prompt for feedback. The template of stage k is loaded
\* only after the feedback of every earlier stage was collected, and the
\* feedback prompt of stage k is open only with stage k's turn in history.
C18_StepOrderWithinStage ==
    /\ [](pc = "load" =>
            /\ stage \in 1..NumStages
            /\ FeedbackCollectedBefore(stage)
            /\ Len(History) = 2 * (stage - 1))
    /\ []((pc = "build" /\ stage \in 1..NumStages) =>
            /\ systemPrompt = Some(LoadPromptFile(TemplateFile(stage)))
            /\ Len(History) = 2 * (stage - 1))
    /\ []((pc = "await" /\ stage \in 1..NumStages) =>
            /\ pending # Nothing
            /\ pending[1][1] = [role |-> "system", content |-> systemPrompt[1]]
            /\ pending[1][Len(pending[1])] =
                 [role |-> "user", content |-> StageUserMessage(stage)]
            /\ Len(History) = 2 * (stage - 1))
    /\ [](pc = "prompt" =>
            /\ stage \in 1..NumStages
            /\ Len(History) = 2 * stage
            /\ TurnInHistory(stage)
            /\ userInputs[stage] = Nothing)
    /\ [][lastOp' = "loadPromptFile" =>
            \/ stage = 1 /\ lastOp = "processContract"
            \/ stage > 1 /\ lastOp = "getUserInput"
                         /\ userInputs[stage - 1] # Nothing]_vars
    /\ [][(lastOp' = "executeStep") => lastOp = "loadPromptFile"]_vars
    /\ [][(lastOp' = "executeStepReturn") =>
            /\ lastOp = "executeStep"
            /\ Len(History') = Len(History) + 2]_vars
    /\ [][(lastOp' \in {"getUserInput", "reprompt"}) =>
            /\ lastOp \in {"executeStepReturn", "reprompt"}
            /\ History' = History]_vars

\* C18 witness: the feedback prompt of the second stage is open, its turn
\* just appended, the first stage's feedback collected before its template
\* was loaded.
C18_Witness ==
    /\ pc = "prompt"
    /\ stage = 2
    /\ lastOp = "executeStepReturn"
    /\ userInputs[1] # Nothing
    /\ TurnInHistory(2)
    /\ Len(History) = 4

-----------------------------------------------------------------------------
(* The run under the assumptions of progress: the program takes its own    *)
(* steps, every provider call returns or fails, and at every feedback      *)
(* prompt a submission that passes validation arrives. Re-prompting is not *)
(* cut off: at the bound of the counter the prompt keeps rejecting blank   *)
(* lines.                                                                  *)

\* Lines of white space only, which validate rejects.
BlankLines == {<<" ">>, <<" ", " ">>}

\* getUserInput: a further blank line at a prompt that already re-prompted
\* as often as the counter records; inquirer shows the prompt again.
RepromptAtBound ==
    /\ pc = "prompt"
    /\ stage \in 1..NumStages
    /\ reprompts = MaxReprompts
    /\ \E line \in BlankLines :
          /\ ~ValidInput(PromptValue(line, DefaultFeedback(stage)))
          /\ submittedLine' = Some(line)
    /\ lastOp' = "reprompt"
    /\ UNCHANGED <<options, env, apiError, chatCall, chatResult, asked,
                   config, session, pc, stage, systemPrompt, responses,
                   userInputs, pending, lastRequest, calls, reprompts,
                   written, error, exitStatus>>

NextLive == Next \/ RepromptAtBound

\* The steps the program takes without waiting for anyone.
ProgramStep ==
    \/ GetConfiguration
    \/ GetInteractiveConfiguration
    \/ GenerateContract
    \/ ProcessContract
    \/ LoadPrompt
    \/ ExecuteStepSend
    \/ GenerateFinalContractSend
    \/ SaveContract
    \/ ActionReturns

\* The pending provider call returns or fails.
ProviderSettles ==
    \/ ExecuteStepReturn
    \/ ChatCompletionThrows
    \/ GenerateFinalContractReturn

\* The user submits a feedback that passes validation.
AcceptedFeedback == GetUserInput /\ lastOp' = "getUserInput"

SpecLive ==
    /\ InitApi
    /\ [][NextLive]_vars
    /\ WF_vars(ProgramStep)
    /\ WF_vars(ProviderSettles)
    /\ WF_vars(AcceptedFeedback)

\* The run ended with the file saved.
EndedDone ==
    /\ pc = "exited"
    /\ exitStatus = Some(0)
    /\ stage = 7
    /\ Len(written) = 1

\* The run ended aborted by an error.
EndedAborted ==
    /\ pc = "exited"
    /\ exitStatus = Some(1)
    /\ error # Nothing

\* C19: if every provider call eventually returns or fails and the user
\* eventually submits a non-empty feedback at every prompt, every run
\* eventually ends, with the file saved or aborted. A pending provider call
\* is left only by its return or its failure, and an open feedback prompt
\* only by a submission, a rejected one leaving the run at the same prompt:
\* there is no timeout and no cancellation.
C19_TerminatesUnderFairness ==
    /\ <>(EndedDone \/ EndedAborted)
    /\ [](pc = "exited" => EndedDone \/ EndedAborted)
    /\ [][pc = "await" =>
            lastOp' \in {"executeStepReturn", "generateFinalContractReturn",
                         "chatCompletionThrows"}]_vars
    /\ [][pc = "prompt" => lastOp' \in {"getUserInput", "reprompt"}]_vars
    /\ [][lastOp' = "reprompt" =>
            /\ pc = "prompt" /\ pc' = "prompt"
            /\ stage' = stage
            /\ session' = session
            /\ userInputs' = userInputs]_vars

\* C19 witness: a run that ended with the file saved after the user had
\* been re-prompted at the bound.
C19_Witness ==
    /\ EndedDone
    /\ submittedLine = Some(<<" ", "a">>)
    /\ calls = <<1, 2, 3, 4, 5, 6>>

-----------------------------------------------------------------------------
\* The roles of the history alternate user, assistant, starting with user.
RolesAlternate ==
    \A i \in 1..Len(History) :
        History[i].role = (IF i % 2 = 1 THEN "user" ELSE "assistant")

\* C20: a provider call that fails leaves the session as it was before the
\* call was issued: issuing the call changes no session field and neither
\* does its failure, so no user message and no assistant entry is appended.
\* In every state the history has an even length, its roles alternate user,
\* assistant from the first entry on, and every user entry is followed by
\* its assistant reply.
C20_FailedCallLeavesSession ==
    /\ [][lastOp' \in {"executeStep", "generateFinalContract"} =>
            session' = session]_vars
    /\ [][lastOp' = "chatCompletionThrows" =>
            /\ pc = "await"
            /\ session' = session
            /\ Len(History') = 2 * Completed]_vars
    /\ [](Len(History) % 2 = 0)
    /\ []RolesAlternate
    /\ [](\A i \in 1..Len(History) :
            History[i].role = "user" =>
                /\ i < Len(History)
                /\ History[i + 1].role = "assistant")

\* C20 witness: the call of the third stage failed, the run is aborted and
\* the history holds the two turns of the stages before it.
C20_Witness ==
    /\ lastOp = "chatCompletionThrows"
    /\ error # Nothing
    /\ error[1].kind = "OpenAIApiError"
    /\ stage = 3
    /\ calls = <<1, 2, 3>>
    /\ Len(History) = 4
    /\ RolesAlternate

=============================================================================
